---- MODULE Spec2Model ----
(***************************************************************************)
(* Model of the teaching scripts of this repository:                       *)
(*   cabin.py  log parser / loader / aggregator / filter                   *)
(*   bott.py   contact-book command handlers behind input_error            *)
(*   main.py   caching_fibonacci, a closure over a memo dictionary         *)
(* A Python str is a sequence of one-character strings, a dict is a        *)
(* function whose domain is its key set, a list is a sequence.             *)
(***************************************************************************)
EXTENDS Integers, Sequences, FiniteSets, TLC

VARIABLES
    line,       \* cabin.py parse_log_line: the argument of the last call
    parsed,     \* cabin.py parse_log_line: what that call returned
    fstate,     \* cabin.py load_logs: the file system's answer for file_path
    source,     \* cabin.py load_logs: the lines the file iterator yields
    pc,         \* cabin.py load_logs: where the call is
    pos,        \* cabin.py load_logs: lines consumed by `for line in file`
    logs,       \* cabin.py load_logs: the list `logs`
    err,        \* cabin.py load_logs: the exception class the handler caught
    exitStatus, \* cabin.py load_logs: the argument of sys.exit, -1 if not called
    called,     \* which of count_logs_by_level / filter_logs_by_level ran
    counts,     \* cabin.py count_logs_by_level: the returned dict
    label,      \* cabin.py filter_logs_by_level: the argument `level`
    filtered,   \* cabin.py filter_logs_by_level: the returned list
    contacts,   \* bott.py main: the dict `contacts`, as its items in insertion order
    cmd,        \* bott.py main: the last command dispatched
    args,       \* bott.py main: its argument list
    reply,      \* bott.py: what the decorated handler returned (lines of text)
    raised,     \* bott.py: the exception the handler's body raised, "none" if none
    escaped,    \* bott.py: the exception that left the decorated handler
    cache,      \* main.py caching_fibonacci: the closure's dict `cache`
    stack,      \* main.py fibonacci: the active calls, innermost last
    returning,  \* main.py fibonacci: a call has just returned `ret` to its caller
    ret,        \* main.py fibonacci: the value last returned
    arg,        \* main.py fibonacci: the argument of the outermost call
    cacheAtCall \* the cache as it was when the outermost call was made

parseVars == <<line, parsed>>
logVars == <<fstate, source, pc, pos, logs, err, exitStatus, called, counts,
             label, filtered>>
botVars == <<contacts, cmd, args, reply, raised, escaped>>
fibVars == <<cache, stack, returning, ret, arg, cacheAtCall>>
vars == <<parseVars, logVars, botVars, fibVars>>

(***************************************************************************)
(* Bounds                                                                  *)
(***************************************************************************)
MaxLineLen == 11    \* longest line handed to parse_log_line on its own
MaxLines == 3       \* most lines in a log file
MaxArgs == 3        \* most arguments typed after a contact-book command
MaxN == 9           \* largest argument of a fibonacci call

(***************************************************************************)
(* str helpers (CPython semantics of the methods cabin.py calls)           *)
(***************************************************************************)
\* characters str.isspace() accepts, restricted to the ASCII ones used here
Whitespace == {" ", "\t", "\n", "\r"}

isspace(c) == c \in Whitespace

RECURSIVE lstrip(_)
lstrip(s) == IF s # <<>> /\ isspace(Head(s)) THEN lstrip(Tail(s)) ELSE s

RECURSIVE rstrip(_)
rstrip(s) ==
    IF s # <<>> /\ isspace(s[Len(s)]) THEN rstrip(SubSeq(s, 1, Len(s) - 1)) ELSE s

\* strip that forgets the right end
strip_left_only(s) == lstrip(s)

\* line.strip()
strip(s) == rstrip(lstrip(s))

\* length of the leading run of non-whitespace characters of s
RECURSIVE WordLen(_)
WordLen(s) == IF s = <<>> \/ isspace(Head(s)) THEN 0 ELSE 1 + WordLen(Tail(s))

\* s.split(maxsplit=m): split on runs of whitespace, at most m splits; once
\* m words are taken the rest (leading whitespace skipped) is the last item
RECURSIVE split(_, _)
split(s, maxsplit) ==
    LET t == lstrip(s) IN
    IF t = <<>> THEN <<>>
    ELSE IF maxsplit = 0 THEN <<t>>
    ELSE LET n == WordLen(t) IN
         <<SubSeq(t, 1, n)>> \o split(SubSeq(t, n + 1, Len(t)), maxsplit - 1)

(***************************************************************************)
(* cabin.py : parse_log_line                                               *)
(***************************************************************************)
\* the empty dict {}
EmptyDict == [k \in {} |-> <<>>]

\* truthiness of a dict: `if parsed:`
Truthy(d) == DOMAIN d # {}

\* parse_log_line that accepts three fields and pads the message
parse_log_line_three(l) ==
    LET parts == split(strip(l), 3) IN
    IF Len(parts) < 3
    THEN EmptyDict
    ELSE [date |-> parts[1], time |-> parts[2], level |-> parts[3],
          message |-> IF Len(parts) < 4 THEN <<>> ELSE parts[4]]

parse_log_line(l) ==
    LET stripped == strip(l)
        parts == split(stripped, 3)
    IN  IF Len(parts) < 4
        THEN EmptyDict
        ELSE [date |-> parts[1], time |-> parts[2],
              level |-> parts[3], message |-> parts[4]]

(***************************************************************************)
(* str.upper() on ASCII letters                                            *)
(***************************************************************************)
LowerLetters == <<"a","b","c","d","e","f","g","h","i","j","k","l","m",
                  "n","o","p","q","r","s","t","u","v","w","x","y","z">>
UpperLetters == <<"A","B","C","D","E","F","G","H","I","J","K","L","M",
                  "N","O","P","Q","R","S","T","U","V","W","X","Y","Z">>

upper_char(c) ==
    IF \E k \in 1..Len(LowerLetters) : LowerLetters[k] = c
    THEN UpperLetters[CHOOSE k \in 1..Len(LowerLetters) : LowerLetters[k] = c]
    ELSE c

\* level.upper()
upper(s) == IF s = <<>> THEN <<>> ELSE [i \in 1..Len(s) |-> upper_char(s[i])]

(***************************************************************************)
(* cabin.py : the level vocabulary                                         *)
(***************************************************************************)
INFO == <<"I","N","F","O">>
DEBUG == <<"D","E","B","U","G">>
ERROR == <<"E","R","R","O","R">>
WARNING == <<"W","A","R","N","I","N","G">>

standard_levels == <<INFO, DEBUG, ERROR, WARNING>>

(***************************************************************************)
(* cabin.py : load_logs                                                    *)
(***************************************************************************)
\* with open(...) succeeds: logs = [] and the iteration starts
load_open_ok ==
    /\ pc = "idle"
    /\ fstate = "ok"
    /\ pc' = "reading"
    /\ pos' = 0
    /\ logs' = <<>>
    /\ UNCHANGED <<fstate, source, err, exitStatus, called, counts, label, filtered>>
    /\ UNCHANGED <<parseVars, botVars, fibVars>>

\* a handler that swallows the missing file and returns the empty list
load_open_missing_swallow ==
    /\ pc = "idle"
    /\ fstate = "missing"
    /\ pc' = "returned"
    /\ err' = "FileNotFoundError"
    /\ UNCHANGED <<fstate, source, pos, logs, exitStatus, called, counts, label, filtered>>
    /\ UNCHANGED <<parseVars, botVars, fibVars>>

\* open raises FileNotFoundError: the handler prints and calls sys.exit(1)
load_open_missing ==
    /\ pc = "idle"
    /\ fstate = "missing"
    /\ pc' = "exited"
    /\ err' = "FileNotFoundError"
    /\ exitStatus' = 1
    /\ UNCHANGED <<fstate, source, pos, logs, called, counts, label, filtered>>
    /\ UNCHANGED <<parseVars, botVars, fibVars>>

\* open raises another OSError (IOError): the handler prints and calls sys.exit(1)
load_open_ioerror ==
    /\ pc = "idle"
    /\ fstate = "denied"
    /\ pc' = "exited"
    /\ err' = "IOError"
    /\ exitStatus' = 1
    /\ UNCHANGED <<fstate, source, pos, logs, called, counts, label, filtered>>
    /\ UNCHANGED <<parseVars, botVars, fibVars>>

\* a loop body without the `if parsed:` test
loop_body_unchecked(lg, l) == Append(lg, parse_log_line(l))

\* the list after one iteration of the loop body on line l
loop_body(lg, l) ==
    LET p == parse_log_line(l) IN
    IF Truthy(p) THEN Append(lg, p) ELSE lg

\* a loop that stops at the first line that does not parse
load_line_break ==
    /\ pc = "reading"
    /\ pos < Len(source)
    /\ logs' = loop_body(logs, source[pos + 1])
    /\ IF Truthy(parse_log_line(source[pos + 1]))
       THEN pos' = pos + 1 /\ pc' = pc
       ELSE pos' = pos /\ pc' = "returned"
    /\ UNCHANGED <<fstate, source, err, exitStatus, called, counts, label, filtered>>
    /\ UNCHANGED <<parseVars, botVars, fibVars>>

\* one iteration of `for line in file`
load_line ==
    /\ pc = "reading"
    /\ pos < Len(source)
    /\ logs' = loop_body(logs, source[pos + 1])
    /\ pos' = pos + 1
    /\ UNCHANGED <<fstate, source, pc, err, exitStatus, called, counts, label, filtered>>
    /\ UNCHANGED <<parseVars, botVars, fibVars>>

\* the read behind the iterator raises IOError: the handler prints and calls
\* sys.exit(1); the partial list is dropped with the frame
load_read_ioerror ==
    /\ pc = "reading"
    /\ pos < Len(source)
    /\ pc' = "exited"
    /\ err' = "IOError"
    /\ exitStatus' = 1
    /\ UNCHANGED <<fstate, source, pos, logs, called, counts, label, filtered>>
    /\ UNCHANGED <<parseVars, botVars, fibVars>>

\* the iterator is exhausted: the with block closes the file, return logs
load_return ==
    /\ pc = "reading"
    /\ pos = Len(source)
    /\ pc' = "returned"
    /\ UNCHANGED <<fstate, source, pos, logs, err, exitStatus, called, counts, label, filtered>>
    /\ UNCHANGED <<parseVars, botVars, fibVars>>

(***************************************************************************)
(* cabin.py : count_logs_by_level                                          *)
(***************************************************************************)
\* a count that normalises the record's level first
count_by_level_upper(lg, level_name) ==
    Len(SelectSeq(lg, LAMBDA log : upper(log.level) = level_name))

\* the nested count_by_level(level_name)
count_by_level(lg, level_name) ==
    Len(SelectSeq(lg, LAMBDA log : log.level = level_name))

count_logs_by_level(lg) ==
    [level \in {standard_levels[i] : i \in 1..Len(standard_levels)} |->
        count_by_level(lg, level)]

count_call ==
    /\ pc = "returned"
    /\ "count" \notin called
    /\ counts' = count_logs_by_level(logs)
    /\ called' = called \cup {"count"}
    /\ UNCHANGED <<fstate, source, pc, pos, logs, err, exitStatus, label, filtered>>
    /\ UNCHANGED <<parseVars, botVars, fibVars>>

(***************************************************************************)
(* cabin.py : filter_logs_by_level                                         *)
(***************************************************************************)
\* a filter that compares the label as given
filter_logs_by_level_raw(lg, level) ==
    SelectSeq(lg, LAMBDA log : log.level = level)

\* a filter that normalises both the label and the record's level
filter_logs_by_level_both(lg, level) ==
    SelectSeq(lg, LAMBDA log : upper(log.level) = upper(level))

filter_logs_by_level(lg, level) ==
    SelectSeq(lg, LAMBDA log : log.level = upper(level))

\* the labels callers ask for
Labels == {INFO, <<"i","n","f","o">>, <<"I","n","f","o">>,
           ERROR, <<"e","r","r","o","r">>,
           <<"d","e","b","u","g">>, <<"W","a","r","n","i","n","g">>,
           <<"T","R","A","C","E">>, <<"t","r","a","c","e">>}

filter_call(level) ==
    /\ pc = "returned"
    /\ "filter" \notin called
    /\ label' = level
    /\ filtered' = filter_logs_by_level(logs, level)
    /\ called' = called \cup {"filter"}
    /\ UNCHANGED <<fstate, source, pc, pos, logs, err, exitStatus, counts>>
    /\ UNCHANGED <<parseVars, botVars, fibVars>>

(***************************************************************************)
(* The inputs                                                              *)
(***************************************************************************)
\* characters the standalone parser calls are made of
ParseChars == {"a", " ", "\n"}

\* one call parse_log_line(line) on a line one character longer than the last
ParseCall(c) ==
    /\ Len(line) < MaxLineLen
    /\ line' = Append(line, c)
    /\ parsed' = parse_log_line(line')
    /\ UNCHANGED <<logVars, botVars, fibVars>>

\* the lines of the log files: "<date> <time> <level> <message>\n" over a few
\* levels and messages, and lines that do not have four fields
LevelWords == {INFO, DEBUG, ERROR, WARNING, <<"i","n","f","o">>,
               <<"T","R","A","C","E">>}
LogLine(lv, m) == <<"1"," ","2"," ">> \o lv \o <<"\t">> \o m \o <<" ","\n">>
GoodLines ==
    {LogLine(lv, <<"D","i","s","k"," "," ","f","u","l","l">>) : lv \in LevelWords}
        \cup {LogLine(lv, <<"u","p">>) : lv \in {INFO, ERROR}}
BadLines == {<<"\n">>, <<"b","a","d"," ","l","i","n","e","\n">>,
             <<"1"," ","2"," ">> \o INFO \o <<" "," ","\n">>}
LogLines == GoodLines \cup BadLines

Files == UNION {[1..n -> LogLines] : n \in 0..MaxLines}

(***************************************************************************)
(* bott.py : the contact book                                              *)
(***************************************************************************)
\* the dict `contacts` is the sequence of its <<name, phone>> items in
\* insertion order (Python dicts keep it)
Keys(c) == {c[i][1] : i \in 1..Len(c)}

IndexOf(c, name) == CHOOSE i \in 1..Len(c) : c[i][1] = name

\* contacts[name]
Lookup(c, name) == c[IndexOf(c, name)][2]

\* contacts[name] = phone
SetItem(c, name, phone) ==
    IF name \in Keys(c)
    THEN [c EXCEPT ![IndexOf(c, name)] = <<name, phone>>]
    ELSE Append(c, <<name, phone>>)

\* a str result as lines of text, each the pieces it was formatted from
Text(t) == <<<<t>>>>

\* what running a handler body gives: the exception it raised ("none" if it
\* returned), the value returned, and the dict afterwards
Returned(value, c) == [exc |-> "none", value |-> value, contacts |-> c]
Raise(e, c) == [exc |-> e, value |-> <<>>, contacts |-> c]

\* the decorator: the three except clauses of inner()
input_error(r) ==
    IF r.exc = "ValueError" THEN Returned(Text("Give me name and phone please."), r.contacts)
    ELSE IF r.exc = "KeyError" THEN Returned(Text("Enter user name."), r.contacts)
    ELSE IF r.exc = "IndexError"
    THEN Returned(Text("Enter the argument for the command."), r.contacts)
    ELSE r

add_contact(a, c) ==
    IF Len(a) # 2 THEN Raise("ValueError", c)
    ELSE Returned(Text("Contact added."), SetItem(c, a[1], a[2]))

\* change that does not look the name up first
change_contact_upsert(a, c) ==
    IF Len(a) # 2 THEN Raise("ValueError", c)
    ELSE Returned(Text("Contact updated."), SetItem(c, a[1], a[2]))

change_contact(a, c) ==
    IF Len(a) # 2 THEN Raise("ValueError", c)
    ELSE IF a[1] \notin Keys(c) THEN Raise("KeyError", c)
    ELSE Returned(Text("Contact updated."), SetItem(c, a[1], a[2]))

show_phone(a, c) ==
    IF Len(a) # 1 THEN Raise("ValueError", c)
    ELSE IF a[1] \notin Keys(c) THEN Raise("KeyError", c)
    ELSE Returned(Text(Lookup(c, a[1])), c)

show_all(c) ==
    IF c = <<>> THEN Returned(Text("No contacts saved."), c)
    ELSE Returned([i \in 1..Len(c) |-> <<c[i][1], ": ", c[i][2]>>], c)

\* main()'s dispatch of one command: the decorated handler runs on the dict
Dispatch(command, a, r) ==
    LET out == input_error(r) IN
    /\ cmd' = command
    /\ args' = a
    /\ raised' = r.exc
    /\ escaped' = out.exc
    /\ reply' = out.value
    /\ contacts' = out.contacts
    /\ UNCHANGED <<parseVars, logVars, fibVars>>

do_add(a) == Dispatch("add", a, add_contact(a, contacts))

do_change(a) == Dispatch("change", a, change_contact(a, contacts))

do_phone(a) == Dispatch("phone", a, show_phone(a, contacts))

do_all == Dispatch("all", <<>>, show_all(contacts))

\* the words typed after a command
Words == {"ann", "bob", "111"}
ArgLists == UNION {[1..n -> Words] : n \in 0..MaxArgs}

(***************************************************************************)
(* main.py : caching_fibonacci                                             *)
(***************************************************************************)
EmptyCache == [k \in {} |-> 0]

\* cache[n] = v
CachePut(c, n, v) == [k \in DOMAIN c \cup {n} |-> IF k = n THEN v ELSE c[k]]

Top == stack[Len(stack)]
Pop == SubSeq(stack, 1, Len(stack) - 1)
Frame(n) == [n |-> n, at |-> "enter", left |-> 0]

\* fib(n) called from outside the closure
fib_call(n) ==
    /\ stack = <<>>
    /\ stack' = <<Frame(n)>>
    /\ arg' = n
    /\ cacheAtCall' = cache
    /\ returning' = FALSE
    /\ UNCHANGED <<cache, ret>>
    /\ UNCHANGED <<parseVars, logVars, botVars>>

\* a base case that returns 1 for every n <= 1
fib_base_one ==
    /\ stack # <<>> /\ ~returning
    /\ Top.at = "enter"
    /\ Top.n <= 1
    /\ ret' = 1
    /\ returning' = TRUE
    /\ stack' = Pop
    /\ UNCHANGED <<cache, arg, cacheAtCall>>
    /\ UNCHANGED <<parseVars, logVars, botVars>>

\* if n <= 1: return n
fib_base ==
    /\ stack # <<>> /\ ~returning
    /\ Top.at = "enter"
    /\ Top.n <= 1
    /\ ret' = Top.n
    /\ returning' = TRUE
    /\ stack' = Pop
    /\ UNCHANGED <<cache, arg, cacheAtCall>>
    /\ UNCHANGED <<parseVars, logVars, botVars>>

\* if n in cache: return cache[n]
fib_hit ==
    /\ stack # <<>> /\ ~returning
    /\ Top.at = "enter"
    /\ Top.n > 1
    /\ Top.n \in DOMAIN cache
    /\ ret' = cache[Top.n]
    /\ returning' = TRUE
    /\ stack' = Pop
    /\ UNCHANGED <<cache, arg, cacheAtCall>>
    /\ UNCHANGED <<parseVars, logVars, botVars>>

\* the right-hand side starts: call fibonacci(n - 1)
fib_miss ==
    /\ stack # <<>> /\ ~returning
    /\ Top.at = "enter"
    /\ Top.n > 1
    /\ Top.n \notin DOMAIN cache
    /\ stack' = Append([stack EXCEPT ![Len(stack)].at = "left"], Frame(Top.n - 1))
    /\ UNCHANGED <<cache, returning, ret, arg, cacheAtCall>>
    /\ UNCHANGED <<parseVars, logVars, botVars>>

\* fibonacci(n - 1) has returned: keep it and call fibonacci(n - 2)
fib_left_done ==
    /\ stack # <<>> /\ returning
    /\ Top.at = "left"
    /\ stack' = Append([stack EXCEPT ![Len(stack)].at = "right",
                                      ![Len(stack)].left = ret],
                        Frame(Top.n - 2))
    /\ returning' = FALSE
    /\ UNCHANGED <<cache, ret, arg, cacheAtCall>>
    /\ UNCHANGED <<parseVars, logVars, botVars>>

\* fibonacci(n - 2) has returned: cache[n] = sum; return cache[n]
fib_store ==
    /\ stack # <<>> /\ returning
    /\ Top.at = "right"
    /\ cache' = CachePut(cache, Top.n, Top.left + ret)
    /\ ret' = cache'[Top.n]
    /\ stack' = Pop
    /\ UNCHANGED <<returning, arg, cacheAtCall>>
    /\ UNCHANGED <<parseVars, logVars, botVars>>

\* no standalone parser call has been made
ParseIdle ==
    /\ line = <<>>
    /\ parsed = parse_log_line(<<>>)

\* load_logs has not been called
LogIdle ==
    /\ fstate = "missing"
    /\ source = <<>>
    /\ pc = "idle"
    /\ pos = 0
    /\ logs = <<>>
    /\ err = "none"
    /\ exitStatus = -1
    /\ called = {}
    /\ counts = EmptyDict
    /\ label = <<>>
    /\ filtered = <<>>

\* main() of bott.py has created the empty contacts dict
BotStart ==
    /\ contacts = <<>>
    /\ cmd = "hello"
    /\ args = <<>>
    /\ reply = <<>>
    /\ raised = "none"
    /\ escaped = "none"

\* caching_fibonacci() has returned the closure over an empty cache
FibStart ==
    /\ cache = EmptyCache
    /\ stack = <<>>
    /\ returning = FALSE
    /\ ret = 0
    /\ arg = 0
    /\ cacheAtCall = EmptyCache

InitParse == ParseIdle /\ LogIdle /\ BotStart /\ FibStart

NextParse == \E c \in ParseChars : ParseCall(c)

SpecParse == InitParse /\ [][NextParse]_vars

InitLog ==
    /\ ParseIdle
    /\ BotStart
    /\ FibStart
    /\ fstate \in {"ok", "missing", "denied"}
    /\ source \in IF fstate = "ok" THEN Files ELSE {<<>>}
    /\ pc = "idle"
    /\ pos = 0
    /\ logs = <<>>
    /\ err = "none"
    /\ exitStatus = -1
    /\ called = {}
    /\ counts = EmptyDict
    /\ label = <<>>
    /\ filtered = <<>>

NextLog ==
    \/ load_open_ok
    \/ load_open_missing
    \/ load_open_ioerror
    \/ load_line
    \/ load_read_ioerror
    \/ load_return
    \/ count_call
    \/ \E level \in Labels : filter_call(level)

SpecLog == InitLog /\ [][NextLog]_vars

InitBot == ParseIdle /\ LogIdle /\ BotStart /\ FibStart

NextBot ==
    \/ \E a \in ArgLists : do_add(a)
    \/ \E a \in ArgLists : do_change(a)
    \/ \E a \in ArgLists : do_phone(a)
    \/ do_all

SpecBot == InitBot /\ [][NextBot]_vars

InitFib == ParseIdle /\ LogIdle /\ BotStart /\ FibStart

NextFib ==
    \/ \E n \in 0..MaxN : fib_call(n)
    \/ fib_base
    \/ fib_hit
    \/ fib_miss
    \/ fib_left_done
    \/ fib_store

SpecFib == InitFib /\ [][NextFib]_vars

(***************************************************************************)
(* Properties of parse_log_line                                            *)
(***************************************************************************)
\* positions where a whitespace-separated token of l starts
TokenStarts(l) ==
    {i \in 1..Len(l) : ~isspace(l[i]) /\ (i = 1 \/ isspace(l[i - 1]))}

NumTokens(l) == Cardinality(TokenStarts(l))

\* the k-th smallest element of the set of positions S
Nth(S, k) == CHOOSE i \in S : Cardinality({j \in S : j <= i}) = k

\* where the token starting at i ends
TokenEnd(l, i) ==
    CHOOSE j \in i..Len(l) :
        /\ \A m \in i..j : ~isspace(l[m])
        /\ j = Len(l) \/ isspace(l[j + 1])

Token(l, k) ==
    LET i == Nth(TokenStarts(l), k) IN SubSeq(l, i, TokenEnd(l, i))

\* position of the last character of l that is not whitespace
LastInk(l) ==
    CHOOSE i \in 1..Len(l) : ~isspace(l[i]) /\ \A j \in (i + 1)..Len(l) : isspace(l[j])

FirstThreeFields ==
    /\ DOMAIN parsed = {"date", "time", "level", "message"}
    /\ parsed.date = Token(line, 1)
    /\ parsed.time = Token(line, 2)
    /\ parsed.level = Token(line, 3)

\* C2 as stated: on every line with at least 4 tokens parse_log_line succeeds,
\* date, time and level are the first three tokens, and message is the text
\* of the line from the fourth token to the end of the line, exactly.
C2_MessageIsRestOfLine ==
    NumTokens(line) >= 4 =>
        /\ FirstThreeFields
        /\ parsed.message = SubSeq(line, Nth(TokenStarts(line), 4), Len(line))

\* C2 amended: on every line with at least 4 tokens parse_log_line succeeds,
\* date, time and level are the first three tokens, and message is the text
\* from the start of the fourth token to the last non-whitespace character of
\* the line, internal whitespace kept exactly; whitespace at the end of the
\* line (the line terminator included) is not part of message.
C2_MessageIsRestOfLineStripped ==
    NumTokens(line) >= 4 =>
        /\ FirstThreeFields
        /\ parsed.message = SubSeq(line, Nth(TokenStarts(line), 4), LastInk(line))

\* a parsed line whose message holds two adjacent whitespace characters and
\* which ends in whitespace
C2_Witness ==
    /\ NumTokens(line) >= 5
    /\ Truthy(parsed)
    /\ isspace(line[Len(line)])
    /\ \E i \in 1..(Len(parsed.message) - 1) :
          isspace(parsed.message[i]) /\ isspace(parsed.message[i + 1])

\* C3: on every line with fewer than 4 tokens (the empty line and lines of
\* whitespace only included) parse_log_line returns the empty dict.
C3_FewerThanFourTokensYieldNothing ==
    NumTokens(line) < 4 => ~Truthy(parsed)

\* a line of exactly three tokens followed by whitespace was parsed to nothing
C3_Witness ==
    /\ NumTokens(line) = 3
    /\ isspace(line[Len(line)])
    /\ ~Truthy(parsed)

(***************************************************************************)
(* Properties of load_logs                                                 *)
(***************************************************************************)
Parsable(l) == Truthy(parse_log_line(l))

\* the indices among the first n lines of the source that parse
ParsableUpTo(n) == {i \in 1..n : Parsable(source[i])}

\* C1: load_logs on N lines of which K do not parse returns N-K records, one
\* per parsable line in the order of the lines; a line that does not parse
\* neither ends the load early nor appears in the result.  Stated for every
\* prefix consumed: after pos lines the list holds the records of exactly the
\* parsable lines among them, in order, and the call returns only when every
\* line has been consumed.
C1_LoadKeepsParsableLinesInOrder ==
    /\ pc \in {"reading", "returned"} =>
        LET idx == ParsableUpTo(pos)
            K == Cardinality((1..pos) \ idx)
        IN  /\ Len(logs) = pos - K
            /\ \A k \in 1..Len(logs) :
                  logs[k] = parse_log_line(source[Nth(idx, k)])
    /\ pc = "returned" => pos = Len(source)

\* a load returned after two lines in a row that do not parse, then one that does
C1_Witness ==
    /\ pc = "returned"
    /\ Len(source) >= 3
    /\ ~Parsable(source[1])
    /\ ~Parsable(source[2])
    /\ Parsable(source[3])
    /\ Len(logs) = Len(source) - 2

NonEmptyRecord(r) ==
    /\ DOMAIN r = {"date", "time", "level", "message"}
    /\ r.date # <<>>
    /\ r.time # <<>>
    /\ r.level # <<>>
    /\ r.message # <<>>

\* C7: in every state of a load every record in the list has the four fields
\* date, time, level and message, none of them empty.
C7_RecordsHaveFourNonEmptyFields ==
    \A k \in 1..Len(logs) : NonEmptyRecord(logs[k])

\* a three-token line with trailing blanks was consumed after a parsable one
C7_Witness ==
    /\ pc = "reading"
    /\ pos = 2
    /\ Parsable(source[1])
    /\ NumTokens(source[2]) = 3
    /\ Len(logs) = 1

(***************************************************************************)
(* Properties of count_logs_by_level and filter_logs_by_level              *)
(***************************************************************************)
StandardLevels == {INFO, DEBUG, ERROR, WARNING}

WithLevel(lv) == {i \in 1..Len(logs) : logs[i].level = lv}

\* C4: the dict count_logs_by_level returns has exactly the keys INFO, DEBUG,
\* ERROR, WARNING; each count is >= 0 and is the number of records whose level
\* is that key, compared case-sensitively; the four counts add up to the
\* number of records whose level is one of the keys.
C4_CountsOverFixedKeys ==
    "count" \in called =>
        /\ DOMAIN counts = StandardLevels
        /\ \A lv \in StandardLevels :
              counts[lv] >= 0 /\ counts[lv] = Cardinality(WithLevel(lv))
        /\ counts[INFO] + counts[DEBUG] + counts[ERROR] + counts[WARNING]
              = Cardinality({i \in 1..Len(logs) : logs[i].level \in StandardLevels})

\* counted: a list with an INFO record, a lowercase info record and a record
\* whose level is outside the fixed set
C4_Witness ==
    /\ "count" \in called
    /\ WithLevel(INFO) # {}
    /\ WithLevel(<<"i","n","f","o">>) # {}
    /\ WithLevel(<<"T","R","A","C","E">>) # {}

\* a and b differ at most in the case of their letters
CasePair(c, d) ==
    \E k \in 1..Len(LowerLetters) : {c, d} = {LowerLetters[k], UpperLetters[k]}

SameIgnoringCase(a, b) ==
    /\ Len(a) = Len(b)
    /\ \A i \in 1..Len(a) : a[i] = b[i] \/ CasePair(a[i], b[i])

\* C5: filter_logs_by_level returns the records whose level equals the
\* uppercased label, in their original order, and labels that differ only in
\* letter case give the same list.
C5_FilterIsSubsequenceOfUppercasedLabel ==
    "filter" \in called =>
        LET idx == WithLevel(upper(label)) IN
        /\ Len(filtered) = Cardinality(idx)
        /\ \A k \in 1..Len(filtered) : filtered[k] = logs[Nth(idx, k)]
        /\ \A other \in Labels :
              SameIgnoringCase(other, label) =>
                  filter_logs_by_level(logs, other) = filtered

\* a lowercase label selected some but not all of the records
C5_Witness ==
    /\ "filter" \in called
    /\ label = <<"e","r","r","o","r">>
    /\ Len(filtered) >= 1
    /\ Len(filtered) < Len(logs)

\* C8: for a label that is one of the four levels up to letter case, the
\* filter returns as many records as the aggregator counts for the uppercased
\* label; a record whose level is not uppercase is never returned by the
\* filter and never counted by the aggregator.
C8_FilterAgreesWithCount ==
    /\ {"count", "filter"} \subseteq called /\ upper(label) \in StandardLevels =>
          Len(filtered) = counts[upper(label)]
    /\ "filter" \in called =>
          \A k \in 1..Len(filtered) : filtered[k].level = upper(filtered[k].level)
    /\ "count" \in called =>
          counts[INFO] + counts[DEBUG] + counts[ERROR] + counts[WARNING]
              <= Cardinality({i \in 1..Len(logs) : logs[i].level = upper(logs[i].level)})

\* label "info" on a list holding both an INFO and an info record
C8_Witness ==
    /\ called = {"count", "filter"}
    /\ label = <<"i","n","f","o">>
    /\ WithLevel(INFO) # {}
    /\ WithLevel(<<"i","n","f","o">>) # {}
    /\ Len(filtered) = counts[INFO]

(***************************************************************************)
(* Properties of the contact book                                          *)
(***************************************************************************)
WrongCount ==
    \/ cmd' \in {"add", "change"} /\ Len(args') # 2
    \/ cmd' = "phone" /\ Len(args') # 1

UnknownName ==
    \/ cmd' = "change" /\ Len(args') = 2 /\ args'[1] \notin Keys(contacts)
    \/ cmd' = "phone" /\ Len(args') = 1 /\ args'[1] \notin Keys(contacts)

ContactStep ==
    /\ escaped' = "none"
    /\ WrongCount =>
          reply' = Text("Give me name and phone please.") /\ contacts' = contacts
    /\ UnknownName => reply' = Text("Enter user name.") /\ contacts' = contacts
    /\ cmd' \in {"phone", "all"} => contacts' = contacts
    /\ cmd' = "change" => Keys(contacts') \subseteq Keys(contacts)
    /\ contacts' # contacts =>
          \/ cmd' = "add" /\ Len(args') = 2
          \/ cmd' = "change" /\ Len(args') = 2 /\ args'[1] \in Keys(contacts)

\* C9: every command step of the contact book returns (no exception leaves
\* the decorated handler); a wrong argument count or an unknown name gives
\* the matching message and leaves contacts unchanged; phone and all never
\* change contacts; change never adds a name; contacts changes only by add
\* with two arguments or change with two arguments naming an existing contact.
C9_ContactsFrame == [][ContactStep]_vars

\* change on an unknown name was answered with the message, contacts non-empty
C9_Witness ==
    /\ cmd = "change"
    /\ raised = "KeyError"
    /\ reply = Text("Enter user name.")
    /\ Len(contacts) = 2

(***************************************************************************)
(* Properties of caching_fibonacci                                         *)
(***************************************************************************)
\* F(0) = 0, F(1) = 1, F(n) = F(n-1) + F(n-2)
RECURSIVE F(_)
F(n) == IF n = 0 THEN 0 ELSE IF n = 1 THEN 1 ELSE F(n - 1) + F(n - 2)

CacheSound == \A k \in DOMAIN cache : k >= 2 /\ cache[k] = F(k)

\* the outermost call has returned
CallDone == stack = <<>> /\ returning

CallCorrect ==
    CallDone =>
        /\ ret = F(arg)
        /\ (arg <= 1 \/ arg \in DOMAIN cacheAtCall) => cache = cacheAtCall

CacheGrowsOnly ==
    \A k \in DOMAIN cache : k \in DOMAIN cache' /\ cache'[k] = cache[k]

\* C10: every call returns F(n) whatever calls came before; in every state
\* the cache holds only keys k >= 2 with cache[k] = F(k); an entry written is
\* never changed or removed; a call whose argument is cached or <= 1 leaves
\* the cache as it was.
C10_CacheHoldsFibonacci ==
    /\ [](CacheSound /\ CallCorrect)
    /\ [][CacheGrowsOnly]_vars

\* a call that found part of its recursion in the cache and extended it
C10_Witness ==
    /\ CallDone
    /\ DOMAIN cacheAtCall = {2, 3}
    /\ arg >= 5
    /\ arg \in DOMAIN cache
    /\ ret = F(arg)

====
